---------------------------- MODULE Spec2Model ----------------------------
(***************************************************************************)
(* Model of the monitoring engine of website-status-monitor:               *)
(*   src/src/website_monitor.py  Prober (check_website_availability),      *)
(*                               Site Task (check_website_recurrently),    *)
(*                               Scheduler (launch_website_monitoring,     *)
(*                               monitor_websites) and Persister           *)
(*                               (save_website_monitoring_results);        *)
(*   src/src/main.py             startup_event, create_website_info;       *)
(*   src/src/database_manager.py the website table and the Result Sink.    *)
(*                                                                         *)
(* Python values are encoded as follows.  An optional value is a sequence  *)
(* of length at most one: None is <<>> and a present value v is <<v>>.     *)
(* A str used as text (a regular expression, a response body) is a         *)
(* sequence of one-character strings, so "" is <<>> and "ba" is            *)
(* <<"b","a">>.  A str used only as an identifier (a url) is a TLA+        *)
(* string.                                                                 *)
(*                                                                         *)
(* All coroutines run on one asyncio event loop: a coroutine runs          *)
(* uninterrupted from one await that really suspends to the next, so every *)
(* action below is one such run.                                           *)
(***************************************************************************)
EXTENDS Integers, Sequences, FiniteSets, TLC

VARIABLES
    db,                 \* rows of the website table, in insertion order
    mainpc,             \* position of startup_event / monitor_websites
    websites,           \* the list startup_event passed to monitor_websites
    wait,               \* seconds left of the sleep of monitor_websites
    tasks,              \* the Site Tasks created so far, in creation order
    monitoring_results, \* WebsiteMonitor.monitoring_results (the deque)
    appended,           \* history: every result appended to the deque, in order
    sink_calls,         \* history: every call of batch_insert_monitoring_data
    error_log,          \* the logger.error of the step just taken, if any
    flush_log,          \* the logger.info of the step just taken, if any
    response,           \* the HTTP answer of the step just taken, if any
    event,              \* what the network did to the probe that ended in the
                        \* step just taken, if one did
    tracking,           \* whether the two histories are being recorded
    probe               \* one direct call of check_website_availability or
                        \* of get_formatted_url

vars == <<db, mainpc, websites, wait, tasks, monitoring_results, appended,
          sink_calls, error_log, flush_log, response, event, tracking,
          probe>>

---------------------------------------------------------------------------
(* Python values *)

None == <<>>

Some(v) == <<v>>

\* Python truthiness of an optional int: None and 0 are false.
TruthyInt(o) == o # None /\ o[1] # 0

\* "is not None" in place of truthiness: the empty pattern taken for a pattern.
TruthyText_NoneOnly(o) == o # None

\* Python truthiness of an optional text: None and "" are false.
TruthyText(o) == o # None /\ o[1] # <<>>

Min(a, b) == IF a <= b THEN a ELSE b

\* settings.py
REQUEST_TIMEOUT == 30

RESULTS_WORKER_WAIT_TIME == 3

RESULTS_BATCH_SAVE_SIZE == 100

\* http.HTTPStatus.REQUEST_TIMEOUT.value
HTTP_REQUEST_TIMEOUT == 408

---------------------------------------------------------------------------
(* Prober: check_website_availability *)

Chars == {"a", "b"}

\* Response bodies the transport may deliver.
Bodies == {<<>>, <<"a">>, <<"b">>, <<"b", "a">>}

\* Status codes the transport may deliver.
Statuses == {200, 404}

Schemes == <<"https", "http">>

\* What the network does to one request: the request itself (session.head or
\* session.get) answers with a status, times out or fails; when it answers,
\* reading the body (response.text()) delivers the text, times out or fails.
Transports ==
    {[connect |-> "timeout", status |-> 0, read |-> "ok", text |-> <<>>],
     [connect |-> "client_error", status |-> 0, read |-> "ok", text |-> <<>>]}
    \cup [connect : {"ok"}, status : Statuses, read : {"ok"}, text : Bodies]
    \cup [connect : {"ok"}, status : Statuses,
          read : {"timeout", "client_error"}, text : {<<>>}]

\* re.match in place of re.search: the pattern only at the start of the body.
re_match(pattern, body) ==
    /\ Len(pattern) <= Len(body)
    /\ \A k \in 1..Len(pattern) : body[k] = pattern[k]

\* re.search(pattern, body) is not None, for a pattern without
\* metacharacters: the pattern occurs somewhere in the body.
re_search(pattern, body) ==
    \E i \in 0..(Len(body) - Len(pattern)) :
        \A k \in 1..Len(pattern) : body[i + k] = pattern[k]

WebsiteMonitoringResult(request_timestamp, response_timestamp, response_time, http_status_code, is_regex_pattern_compliant) ==
    [request_timestamp |-> request_timestamp,
     response_timestamp |-> response_timestamp,
     response_time |-> response_time,
     http_status_code |-> http_status_code,
     url |-> None,
     website_id |-> None,
     is_regex_pattern_compliant |-> is_regex_pattern_compliant]

\* The measured time in place of the configured one.
TimeoutResult_Elapsed(request_timestamp, response_timestamp) ==
    WebsiteMonitoringResult(request_timestamp, response_timestamp,
                            response_timestamp - request_timestamp,
                            HTTP_REQUEST_TIMEOUT, None)

\* Lines 183-186 and 191-197: the result made up for a request that timed
\* out; is_regex_pattern_compliant is still the None of line 161.
TimeoutResult(request_timestamp, response_timestamp) ==
    WebsiteMonitoringResult(request_timestamp, response_timestamp,
                            REQUEST_TIMEOUT, HTTP_REQUEST_TIMEOUT, None)

\* What the network did to a probe, seen from the wire: the request or the
\* body read timed out ("timeout"), failed ("client_error"), or the site
\* answered ("ok").  A body is read only when a pattern asks for it.
WireEvent(regexp_pattern, t) ==
    IF t.connect # "ok" THEN t.connect
    ELSE IF TruthyText(regexp_pattern) THEN t.read
    ELSE "ok"

\* One iteration of the loop over the schemes (lines 159-197).  t is what the
\* network does to the request of this iteration, request_timestamp the clock
\* read before the request and elapsed the time to the clock read after it.
\* The value says how the iteration ends ("return" or "raise"), the result
\* returned and the request made.
ProbeAttempt(scheme, url, regexp_pattern, t, request_timestamp, elapsed) ==
    LET method == IF ~TruthyText(regexp_pattern) THEN "HEAD" ELSE "GET"
        read_body == method = "GET" /\ t.connect = "ok"
        request == [target_url |-> <<scheme, url>>, method |-> method,
                    read_body |-> read_body]
        response_timestamp == request_timestamp + elapsed
        timed_out == t.connect = "timeout"
                     \/ (read_body /\ t.read = "timeout")
        failed == t.connect = "client_error"
                  \/ (read_body /\ t.read = "client_error")
    IN  IF timed_out
        THEN [end |-> "return",
              result |-> Some(TimeoutResult(request_timestamp,
                                            response_timestamp)),
              request |-> request]
        ELSE IF failed
        THEN [end |-> "raise", result |-> None, request |-> request]
        ELSE [end |-> "return",
              result |-> Some(WebsiteMonitoringResult(
                             request_timestamp, response_timestamp,
                             response_timestamp - request_timestamp,
                             t.status,
                             IF method = "GET"
                             THEN Some(re_search(regexp_pattern[1], t.text))
                             ELSE None)),
              request |-> request]

\* The fallback carried out: after a failure of one scheme the next is tried.
RECURSIVE ProbeLoop_Fallback(_, _, _, _, _, _, _)
ProbeLoop_Fallback(schemes, url, regexp_pattern, transport, request_timestamp, elapsed, requests) ==
    IF schemes = <<>>
    THEN [end |-> "raise", result |-> None, requests |-> requests]
    ELSE LET a == ProbeAttempt(Head(schemes), url, regexp_pattern,
                               transport[Head(schemes)], request_timestamp,
                               elapsed)
         IN  IF a.end = "return"
             THEN [end |-> a.end, result |-> a.result,
                   requests |-> Append(requests, a.request)]
             ELSE ProbeLoop_Fallback(Tail(schemes), url, regexp_pattern,
                                     transport, request_timestamp, elapsed,
                                     Append(requests, a.request))

\* The loop "for scheme in ("https", "http")": every iteration ends the call,
\* by the return of line 191 or the raise of line 189.
RECURSIVE ProbeLoop(_, _, _, _, _, _, _)
ProbeLoop(schemes, url, regexp_pattern, transport, request_timestamp, elapsed, requests) ==
    IF schemes = <<>>
    THEN [end |-> "return", result |-> None, requests |-> requests]
    ELSE LET a == ProbeAttempt(Head(schemes), url, regexp_pattern,
                               transport[Head(schemes)], request_timestamp,
                               elapsed)
         IN  IF a.end \in {"return", "raise"}
             THEN [end |-> a.end, result |-> a.result,
                   requests |-> Append(requests, a.request)]
             ELSE ProbeLoop(Tail(schemes), url, regexp_pattern, transport,
                            request_timestamp, elapsed,
                            Append(requests, a.request))

\* check_website_availability(url, regexp_pattern) under the network
\* behaviour transport (one Transports value per scheme).
check_website_availability(url, regexp_pattern, transport, request_timestamp, elapsed) ==
    ProbeLoop(Schemes, url, regexp_pattern, transport, request_timestamp,
              elapsed, <<>>)

---------------------------------------------------------------------------
(* Bounds of the model *)

\* The deque is unbounded; a probe that would make it longer than this is
\* not taken.
MaxBuf == 2

\* While the histories are recorded, at most this many results are appended.
MaxAppends == 2

---------------------------------------------------------------------------
(* Configuration Store: the website table *)

\* The sites that may be registered: one without a pattern, one with the
\* pattern "a".
Sites == <<[url |-> "a.com", regexp_pattern |-> None],
           [url |-> "b.com", regexp_pattern |-> Some(<<"a">>)]>>

\* interval values of a site: absent, 0 and a positive period.
Intervals == {None, Some(0), Some(1)}

\* sql/insert_website_info.sql: the row gets the next value of the serial id
\* column.
insert_website_data(table, fields_data) ==
    Append(table, [id |-> Len(table) + 1,
                   url |-> fields_data.url,
                   interval |-> fields_data.interval,
                   regexp_pattern |-> fields_data.regexp_pattern])

\* get_website_data(url=None): all the rows; get_website_data(url): the rows
\* of that url.
get_website_data(table, url) ==
    IF url = None THEN table
    ELSE SelectSeq(table, LAMBDA row : row.url = url[1])

\* The tables the process may find at startup: no site, one site, two sites.
RECURSIVE TablesOf(_)
TablesOf(n) ==
    IF n = 0 THEN {<<>>}
    ELSE {insert_website_data(t, [url |-> Sites[n].url, interval |-> i,
                                  regexp_pattern |-> Sites[n].regexp_pattern]) :
              t \in TablesOf(n - 1), i \in Intervals}

InitialTables == UNION {TablesOf(n) : n \in 0..Len(Sites)}

---------------------------------------------------------------------------
(* Site Task: check_website_recurrently *)

\* A Site Task: the website_data it was created with (never re-read), its
\* position and the seconds left of its asyncio.sleep.
\*   "created"   created by asyncio.create_task, not run yet
\*   "probing"   suspended in check_website_availability (line 76)
\*   "sleeping"  suspended in asyncio.sleep(interval) (line 82)
\*   "returned"  ended by the return of line 73 (no interval)
\*   "failed"    ended by the exception check_website_availability raised
NewTask(website_data) ==
    [website_data |-> website_data, pc |-> "created", sleep |-> 0]

InLoop(t) == t.pc \in {"probing", "sleeping"}

\* The stamp of the url alone.
Stamp_UrlOnly(result, website_data) ==
    [result EXCEPT !.url = Some(website_data.url)]

\* Lines 79-80: the Site Task stamps the site onto the result of the Prober.
Stamp(result, website_data) ==
    [result EXCEPT !.url = Some(website_data.url),
                   !.website_id = Some(website_data.id)]

\* deque.appendleft in place of deque.append: the result goes to the left
\* end.
deque_appendleft(deque, x) == <<x>> \o deque

\* Line 81: deque.append adds at the right end.
deque_append(deque, x) == Append(deque, x)

\* A history grows only while it is recorded.
Record(history, x) == IF tracking THEN Append(history, x) ELSE history

\* A step that answers no request, logs nothing and ends no probe.
Silent ==
    /\ response' = None
    /\ error_log' = None
    /\ flush_log' = None
    /\ event' = None

\* No coroutine runs while monitor_websites holds the event loop: between
\* finding the deque non-empty (line 107) and the next sleep it never awaits.
LoopFree == mainpc # "running"

\* "is None" in place of "not": an interval of 0 is taken for a period.
FirstRun_NoneOnly(website_data) ==
    IF website_data.interval = None THEN "returned" ELSE "probing"

\* Lines 68-76: without an interval the task returns, otherwise it sends
\* the first request.
FirstRun(website_data) ==
    IF ~TruthyInt(website_data.interval) THEN "returned" ELSE "probing"

\* First run of the task.
TaskStart(i) ==
    /\ LoopFree
    /\ tasks[i].pc = "created"
    /\ tasks' = [tasks EXCEPT ![i].pc = FirstRun(tasks[i].website_data)]
    /\ Silent
    /\ UNCHANGED <<db, mainpc, websites, wait, monitoring_results, appended,
                   sink_calls, tracking,
                   probe>>

\* What the network may do to the two schemes while the engine runs: every
\* way a request may end, with one answer status and an empty or a matching
\* body.
Networks ==
    LET ts == {t \in Transports :
                  t.status \in {0, 200} /\ t.text \in {<<>>, <<"a">>}}
    IN  [https : ts, http : ts]

\* The seconds between the two clock reads of a probe: a timeout comes when
\* REQUEST_TIMEOUT seconds are over, an answer or a failure after a second.
ElapsedOf(regexp_pattern, t) ==
    IF WireEvent(regexp_pattern, t) = "timeout" THEN REQUEST_TIMEOUT ELSE 1

\* The ways one probe of the site website_data may end, each with what the
\* network did.  Timestamps are counted from the instant the request was
\* sent.
ProbeEnds(website_data) ==
    {[wire |-> WireEvent(website_data.regexp_pattern, transport.https),
      call |-> check_website_availability(
                   website_data.url, website_data.regexp_pattern, transport,
                   0, ElapsedOf(website_data.regexp_pattern,
                                transport.https))] :
         transport \in Networks}

\* The interval less the time the probe took.
SleepTime_LessElapsed(website_data, result) ==
    IF website_data.interval[1] > result.response_time
    THEN website_data.interval[1] - result.response_time
    ELSE 0

\* Line 82: the task sleeps for its interval.
SleepTime(website_data, result) == website_data.interval[1]

\* The exception caught and the loop going on.
OnRaise_Continue(ts, i) == [ts EXCEPT ![i].pc = "sleeping"]

\* Line 76: nothing in check_website_recurrently catches the exception of
\* the Prober, so it ends the task.
OnRaise(ts, i) == [ts EXCEPT ![i].pc = "failed"]

\* The Prober of task i ends, lines 76-82.  If it raised, the exception ends
\* the task; otherwise the stamped result is appended and the task sleeps
\* for its whole interval.
TaskProbeDone(i) ==
    /\ LoopFree
    /\ tasks[i].pc = "probing"
    /\ \E e \in ProbeEnds(tasks[i].website_data) :
          LET wd == tasks[i].website_data
              r == e.call
          IN  /\ event' = Some([task |-> i, wire |-> e.wire])
              /\ IF r.end = "raise"
                 THEN /\ tasks' = OnRaise(tasks, i)
                      /\ UNCHANGED <<monitoring_results, appended>>
                 ELSE /\ Len(monitoring_results) < MaxBuf
                      /\ tracking => Len(appended) < MaxAppends
                      /\ monitoring_results' =
                             deque_append(monitoring_results,
                                          Stamp(r.result[1], wd))
                      /\ appended' = Record(appended, Stamp(r.result[1], wd))
                      /\ tasks' = [tasks EXCEPT
                                      ![i].pc = "sleeping",
                                      ![i].sleep = SleepTime(wd, r.result[1])]
    /\ response' = None
    /\ error_log' = None
    /\ flush_log' = None
    /\ UNCHANGED <<db, mainpc, websites, wait, sink_calls, tracking, probe>>

\* The sleep cut short: the task goes on before its interval is over.
TaskWake_Early(i) ==
    /\ LoopFree
    /\ tasks[i].pc = "sleeping"
    /\ tasks' = [tasks EXCEPT ![i].pc = "probing"]
    /\ Silent
    /\ UNCHANGED <<db, mainpc, websites, wait, monitoring_results, appended,
                   sink_calls, tracking,
                   probe>>

\* asyncio.sleep(interval) of task i is over: the loop of line 75 sends the
\* next request.
TaskWake(i) ==
    /\ LoopFree
    /\ tasks[i].pc = "sleeping"
    /\ tasks[i].sleep = 0
    /\ tasks' = [tasks EXCEPT ![i].pc = "probing"]
    /\ Silent
    /\ UNCHANGED <<db, mainpc, websites, wait, monitoring_results, appended,
                   sink_calls, tracking,
                   probe>>

\* One second passes for every coroutine that sleeps.
Tick ==
    /\ LoopFree
    /\ \/ mainpc = "sleeping" /\ wait > 0
       \/ \E i \in 1..Len(tasks) : tasks[i].pc = "sleeping" /\ tasks[i].sleep > 0
    /\ wait' = IF mainpc = "sleeping" /\ wait > 0 THEN wait - 1 ELSE wait
    /\ tasks' = [i \in 1..Len(tasks) |->
                    IF tasks[i].pc = "sleeping" /\ tasks[i].sleep > 0
                    THEN [tasks[i] EXCEPT !.sleep = @ - 1]
                    ELSE tasks[i]]
    /\ Silent
    /\ UNCHANGED <<db, mainpc, websites, monitoring_results, appended,
                   sink_calls, tracking,
                   probe>>

---------------------------------------------------------------------------
(* Persister: save_website_monitoring_results *)

\* deque.pop in place of deque.popleft: the item at the right end.
deque_pop(deque) ==
    [item |-> deque[Len(deque)], deque |-> SubSeq(deque, 1, Len(deque) - 1)]

\* Line 124: deque.popleft takes the item at the left end.
deque_popleft(deque) == [item |-> Head(deque), deque |-> Tail(deque)]

\* http_status_code_to_counter[code] += 1 on a defaultdict(int); the dict is
\* the sequence of its items in insertion order.
CounterInc(counter, code) ==
    IF \E k \in 1..Len(counter) : counter[k].code = code
    THEN [k \in 1..Len(counter) |->
             IF counter[k].code = code
             THEN [counter[k] EXCEPT !.count = @ + 1]
             ELSE counter[k]]
    ELSE Append(counter, [code |-> code, count |-> 1])

\* "<=" in place of "<" in the loop condition.
RECURSIVE PopLoop_OffByOne(_)
PopLoop_OffByOne(l) ==
    IF l.deque # <<>> /\ l.processed_results_num <= RESULTS_BATCH_SAVE_SIZE
    THEN LET p == deque_popleft(l.deque)
         IN  PopLoop_OffByOne(
                 [deque |-> p.deque,
                  monitoring_data |-> Append(l.monitoring_data, p.item),
                  counter |-> CounterInc(l.counter, p.item.http_status_code),
                  processed_results_num |-> l.processed_results_num + 1])
    ELSE l

\* The while loop of lines 120-127, on the locals of the function.
RECURSIVE PopLoop(_)
PopLoop(l) ==
    IF l.deque # <<>> /\ l.processed_results_num < RESULTS_BATCH_SAVE_SIZE
    THEN LET p == deque_popleft(l.deque)
         IN  PopLoop([deque |-> p.deque,
                      monitoring_data |-> Append(l.monitoring_data, p.item),
                      counter |-> CounterInc(l.counter,
                                             p.item.http_status_code),
                      processed_results_num |-> l.processed_results_num + 1])
    ELSE l

\* The sort without reverse=True: the smallest count first.
RECURSIVE SortedByCount_Ascending(_)
SortedByCount_Ascending(items) ==
    IF items = <<>> THEN <<>>
    ELSE LET rest == SortedByCount_Ascending(Tail(items))
             x == Head(items)
             before == SelectSeq(rest, LAMBDA y : y.count < x.count)
             after == SelectSeq(rest, LAMBDA y : y.count >= x.count)
         IN  before \o <<x>> \o after

\* sorted(items, key=count, reverse=True): stable, so items of equal count
\* keep their order.
RECURSIVE SortedByCount(_)
SortedByCount(items) ==
    IF items = <<>> THEN <<>>
    ELSE LET rest == SortedByCount(Tail(items))
             x == Head(items)
             before == SelectSeq(rest, LAMBDA y : y.count > x.count)
             after == SelectSeq(rest, LAMBDA y : y.count <= x.count)
         IN  before \o <<x>> \o after

\* The batch put back at the left end of the deque when the sink raises, to
\* be handed over again by the next flush.
save_website_monitoring_results_Retry(deque, sink_ok) ==
    LET s == PopLoop([deque |-> deque, monitoring_data |-> <<>>,
                      counter |-> <<>>, processed_results_num |-> 0])
    IN  [deque |-> IF sink_ok THEN s.deque ELSE deque,
         monitoring_data |-> s.monitoring_data,
         raised |-> ~sink_ok,
         log |-> IF sink_ok
                 THEN Some([saved |-> Len(s.monitoring_data),
                            breakdown |-> SortedByCount(s.counter)])
                 ELSE None]

\* save_website_monitoring_results on the deque, the Result Sink answering
\* sink_ok: what is left in the deque, the batch handed to the sink, whether
\* the call raises, and the logger.info of lines 138-142 when it does not.
save_website_monitoring_results(deque, sink_ok) ==
    LET s == PopLoop([deque |-> deque, monitoring_data |-> <<>>,
                      counter |-> <<>>, processed_results_num |-> 0])
    IN  [deque |-> s.deque,
         monitoring_data |-> s.monitoring_data,
         raised |-> ~sink_ok,
         log |-> IF sink_ok
                 THEN Some([saved |-> Len(s.monitoring_data),
                            breakdown |-> SortedByCount(s.counter)])
                 ELSE None]

\* One call of batch_insert_monitoring_data, as the history keeps it: the
\* batch, whether the sink raised, how many results had been appended by
\* then, and how many were left in the deque.
SinkCall(s) ==
    [monitoring_data |-> s.monitoring_data, raised |-> s.raised,
     n_appended |-> Len(appended), left |-> Len(s.deque)]

---------------------------------------------------------------------------
(* Scheduler: startup_event, launch_website_monitoring, monitor_websites *)

\* startup_event: reads the website table and creates the monitor_websites
\* task.
startup_event ==
    /\ mainpc = "init"
    /\ websites' = get_website_data(db, None)
    /\ mainpc' = "created"
    /\ Silent
    /\ UNCHANGED <<db, wait, tasks, monitoring_results, appended, sink_calls,
                   tracking, probe>>

\* launch_website_monitoring: asyncio.create_task of the Site Task.
launch_website_monitoring(ts, website_data) ==
    Append(ts, NewTask(website_data))

\* The launch left out for the sites without an interval.
RECURSIVE LaunchAll_SkipInactive(_, _)
LaunchAll_SkipInactive(ts, websites_data) ==
    IF websites_data = <<>> THEN ts
    ELSE LaunchAll_SkipInactive(
             IF TruthyInt(Head(websites_data).interval)
             THEN launch_website_monitoring(ts, Head(websites_data))
             ELSE ts,
             Tail(websites_data))

\* The for loop of lines 101-102 over the list.
RECURSIVE LaunchAll(_, _)
LaunchAll(ts, websites_data) ==
    IF websites_data = <<>> THEN ts
    ELSE LaunchAll(launch_website_monitoring(ts, Head(websites_data)),
                   Tail(websites_data))

\* The flush made without the test of line 107.
AfterCheck_NoTest(deque) == "running"

\* Lines 104-108, from the top of "while True" to the next suspension or
\* flush: with an empty deque the loop sleeps RESULTS_WORKER_WAIT_TIME,
\* otherwise it goes on to save without awaiting.
AfterCheck(deque) == IF deque = <<>> THEN "sleeping" ELSE "running"

\* No try around the save: the exception ends monitor_websites.
AfterSave_Escapes(raised, deque) ==
    IF raised THEN "failed" ELSE AfterCheck(deque)

\* A sleep after every flush, whatever is left in the deque.
AfterSave_Sleeps(raised, deque) == "sleeping"

\* Lines 110-113: an exception of save_website_monitoring_results is caught
\* and logged, and the loop goes on.
AfterSave(raised, deque) == AfterCheck(deque)

\* First run of monitor_websites: launches a Site Task per site of the
\* list, then enters the loop.
MonitorStart ==
    /\ mainpc = "created"
    /\ tasks' = LaunchAll(tasks, websites)
    /\ mainpc' = AfterCheck(monitoring_results)
    /\ wait' = RESULTS_WORKER_WAIT_TIME
    /\ Silent
    /\ UNCHANGED <<db, websites, monitoring_results, appended, sink_calls,
                   tracking, probe>>

\* The sleep of line 108 repeated without a look at the deque.
MonitorWake_SleepsOn ==
    /\ mainpc = "sleeping"
    /\ wait = 0
    /\ mainpc' = "sleeping"
    /\ wait' = RESULTS_WORKER_WAIT_TIME
    /\ Silent
    /\ UNCHANGED <<db, websites, tasks, monitoring_results, appended,
                   sink_calls, tracking,
                   probe>>

\* The sleep of line 108 is over: the loop looks at the deque again.
MonitorWake ==
    /\ mainpc = "sleeping"
    /\ wait = 0
    /\ mainpc' = AfterCheck(monitoring_results)
    /\ wait' = RESULTS_WORKER_WAIT_TIME
    /\ Silent
    /\ UNCHANGED <<db, websites, tasks, monitoring_results, appended,
                   sink_calls, tracking,
                   probe>>

\* The sink call awaited: a Site Task whose probe has ended runs before
\* the call returns, and its result is in the deque when the flush ends.
Flush_Awaiting ==
    /\ mainpc = "running"
    /\ tracking => Len(appended) < MaxAppends
    /\ \E sink_ok \in BOOLEAN, i \in 1..Len(tasks) :
          /\ tasks[i].pc = "probing"
          /\ \E e \in ProbeEnds(tasks[i].website_data) :
                LET s == save_website_monitoring_results(monitoring_results,
                                                         sink_ok)
                    r == Stamp(e.call.result[1], tasks[i].website_data)
                IN  /\ e.call.end # "raise"
                    /\ monitoring_results' = deque_append(s.deque, r)
                    /\ appended' = Record(appended, r)
                    /\ tasks' = [tasks EXCEPT ![i].pc = "sleeping",
                                              ![i].sleep = 1]
                    /\ sink_calls' = Record(sink_calls, SinkCall(s))
                    /\ error_log' = None
                    /\ flush_log' = s.log
                    /\ mainpc' = "running"
                    /\ wait' = RESULTS_WORKER_WAIT_TIME
    /\ response' = None
    /\ event' = None
    /\ UNCHANGED <<db, websites, tracking, probe>>

\* One flush cycle, lines 110-113 and back to line 104.
Flush ==
    /\ mainpc = "running"
    /\ \E sink_ok \in BOOLEAN :
          LET s == save_website_monitoring_results(monitoring_results,
                                                   sink_ok)
          IN  /\ monitoring_results' = s.deque
              /\ sink_calls' = Record(sink_calls, SinkCall(s))
              /\ error_log' = IF s.raised
                              THEN Some("Could not save the websites")
                              ELSE None
              /\ flush_log' = s.log
              /\ mainpc' = AfterSave(s.raised, s.deque)
              /\ wait' = RESULTS_WORKER_WAIT_TIME
    /\ response' = None
    /\ event' = None
    /\ UNCHANGED <<db, websites, tasks, appended, tracking, probe>>

---------------------------------------------------------------------------
(* Registration: create_website_info *)

\* What the database does during one request: nothing wrong, or a
\* psycopg2.Error in the first read, in the insert or in the second read.
DbFaults == {"none", "get1", "insert", "get2"}

\* The launch made before the existence check.
CreateEnd_LaunchesExisting(table, ts, url, interval, regexp_pattern, fault) ==
    LET found_website == get_website_data(table, Some(url))
        inserted == insert_website_data(
                        table, [url |-> url, interval |-> interval,
                                regexp_pattern |-> regexp_pattern])
    IN  IF found_website # <<>>
        THEN [status |-> 400, db |-> table,
              tasks |-> launch_website_monitoring(ts, found_website[1])]
        ELSE [status |-> 201, db |-> inserted,
              tasks |-> launch_website_monitoring(
                            ts, get_website_data(inserted, Some(url))[1])]

\* The existence check left out: the row is inserted whatever is stored.
CreateEnd_NoExistenceCheck(table, ts, url, interval, regexp_pattern, fault) ==
    LET inserted == insert_website_data(
                        table, [url |-> url, interval |-> interval,
                                regexp_pattern |-> regexp_pattern])
        found_websites == get_website_data(inserted, Some(url))
    IN  IF fault \in {"get1", "insert"}
        THEN [status |-> 500, db |-> table, tasks |-> ts]
        ELSE IF fault = "get2"
        THEN [status |-> 500, db |-> inserted, tasks |-> ts]
        ELSE [status |-> 201, db |-> inserted,
              tasks |-> launch_website_monitoring(ts, found_websites[1])]

\* The launch made before the row is stored: it happens although the insert
\* fails.
CreateEnd_LaunchBeforeInsert(table, ts, url, interval, regexp_pattern, fault) ==
    LET found_website == get_website_data(table, Some(url))
        website_info_data == [url |-> url, interval |-> interval,
                              regexp_pattern |-> regexp_pattern]
        inserted == insert_website_data(table, website_info_data)
        found_websites == get_website_data(inserted, Some(url))
    IN  IF fault = "get1"
        THEN [status |-> 500, db |-> table, tasks |-> ts]
        ELSE IF found_website # <<>>
        THEN [status |-> 400, db |-> table, tasks |-> ts]
        ELSE IF fault = "insert"
        THEN [status |-> 500, db |-> table,
              tasks |-> launch_website_monitoring(ts, found_websites[1])]
        ELSE IF fault = "get2"
        THEN [status |-> 500, db |-> inserted, tasks |-> ts]
        ELSE [status |-> 201, db |-> inserted,
              tasks |-> launch_website_monitoring(ts, found_websites[1])]

\* The existence check made before the insert of another request for the
\* same url, the insert and the launch after it: the check does not see the
\* row stored last.
CreateEnd_StaleCheck(table, ts, url, interval, regexp_pattern, fault) ==
    LET seen == IF table = <<>> THEN table
                ELSE SubSeq(table, 1, Len(table) - 1)
        found_website == get_website_data(seen, Some(url))
        inserted == insert_website_data(
                        table, [url |-> url, interval |-> interval,
                                regexp_pattern |-> regexp_pattern])
        found_websites == get_website_data(inserted, Some(url))
    IN  IF fault = "get1"
        THEN [status |-> 500, db |-> table, tasks |-> ts]
        ELSE IF found_website # <<>>
        THEN [status |-> 400, db |-> table, tasks |-> ts]
        ELSE IF fault = "insert"
        THEN [status |-> 500, db |-> table, tasks |-> ts]
        ELSE IF fault = "get2"
        THEN [status |-> 500, db |-> inserted, tasks |-> ts]
        ELSE [status |-> 201, db |-> inserted,
              tasks |-> launch_website_monitoring(ts, found_websites[1])]

\* create_website_info for a validated, formatted url, the database
\* behaving as fault says: the answer, the table and the Site Tasks after
\* the request.  No await lies between the existence check, the insert and
\* the launch.  The first request is served after the first run of
\* monitor_websites, which startup_event has put on the event loop before
\* the server accepts connections.
CreateEnd(table, ts, url, interval, regexp_pattern, fault) ==
    LET found_website == get_website_data(table, Some(url))
        website_info_data == [url |-> url, interval |-> interval,
                              regexp_pattern |-> regexp_pattern]
        inserted == insert_website_data(table, website_info_data)
        found_websites == get_website_data(inserted, Some(url))
    IN  IF fault = "get1"
        THEN [status |-> 500, db |-> table, tasks |-> ts]
        ELSE IF found_website # <<>>
        THEN [status |-> 400, db |-> table, tasks |-> ts]
        ELSE IF fault = "insert"
        THEN [status |-> 500, db |-> table, tasks |-> ts]
        ELSE IF fault = "get2"
        THEN [status |-> 500, db |-> inserted, tasks |-> ts]
        ELSE [status |-> 201, db |-> inserted,
              tasks |-> launch_website_monitoring(ts, found_websites[1])]

create_website_info(url, interval, regexp_pattern) ==
    /\ LoopFree
    /\ mainpc \notin {"init", "created"}
    /\ \E e \in {CreateEnd(db, tasks, url, interval, regexp_pattern, fault) :
                    fault \in DbFaults} :
          /\ response' = Some([handler |-> "create_website_info",
                               url |-> url, status |-> e.status])
          /\ db' = e.db
          /\ tasks' = e.tasks
    /\ error_log' = None
    /\ flush_log' = None
    /\ event' = None
    /\ UNCHANGED <<mainpc, websites, wait, monitoring_results, appended,
                   sink_calls, tracking, probe>>

---------------------------------------------------------------------------
(* Update: update_website_info *)

\* What the database does during one update request: nothing wrong, or a
\* psycopg2.Error in the read or in the update.
UpdateFaults == {"none", "get1", "update"}

\* regexp_pattern of an update request: not given, or the pattern "b".
UpdatePatterns == {None, Some(<<"b">>)}

\* sql/update_website_info.sql: the row of the url gets the interval and the
\* pattern of fields_data.
update_website_data(table, fields_data) ==
    [k \in 1..Len(table) |->
        IF table[k].url = fields_data.url
        THEN [table[k] EXCEPT !.interval = fields_data.interval,
                              !.regexp_pattern = fields_data.regexp_pattern]
        ELSE table[k]]

\* Truthiness in place of "is not None": an interval of 0 taken for absent.
Overwrite_Truthy(found_website, interval, regexp_pattern) ==
    [found_website EXCEPT
        !.interval = IF TruthyInt(interval) THEN interval ELSE @,
        !.regexp_pattern = IF TruthyText(regexp_pattern)
                           THEN regexp_pattern ELSE @]

\* Lines 165-169: the stored row with the fields the request gives.
Overwrite(found_website, interval, regexp_pattern) ==
    [found_website EXCEPT
        !.interval = IF interval # None THEN interval ELSE @,
        !.regexp_pattern = IF regexp_pattern # None
                           THEN regexp_pattern ELSE @]

\* update_website_info for a validated, formatted url, the database
\* behaving as fault says: the answer and the table after the request.
UpdateEnd(table, url, interval, regexp_pattern, fault) ==
    LET found_websites == get_website_data(table, Some(url))
    IN  IF interval = None /\ regexp_pattern = None
        THEN [status |-> 400, db |-> table]
        ELSE IF fault = "get1"
        THEN [status |-> 500, db |-> table]
        ELSE IF found_websites = <<>>
        THEN [status |-> 404, db |-> table]
        ELSE IF fault = "update"
        THEN [status |-> 500, db |-> table]
        ELSE [status |-> 200,
              db |-> update_website_data(
                         table, Overwrite(found_websites[1], interval,
                                          regexp_pattern))]

\* The update carried through to the running task of the site.
update_website_info_Live(url, interval, regexp_pattern) ==
    /\ LoopFree
    /\ mainpc \notin {"init", "created"}
    /\ \E e \in {UpdateEnd(db, url, interval, regexp_pattern, fault) :
                    fault \in UpdateFaults} :
          /\ response' = Some([handler |-> "update_website_info",
                               url |-> url, interval |-> interval,
                               regexp_pattern |-> regexp_pattern,
                               status |-> e.status])
          /\ db' = e.db
          /\ tasks' = [i \in 1..Len(tasks) |->
                          IF e.status = 200 /\ tasks[i].website_data.url = url
                          THEN [tasks[i] EXCEPT
                                   !.website_data =
                                       Overwrite(@, interval, regexp_pattern)]
                          ELSE tasks[i]]
    /\ error_log' = None
    /\ flush_log' = None
    /\ event' = None
    /\ UNCHANGED <<mainpc, websites, wait, monitoring_results,
                   appended, sink_calls, tracking, probe>>

\* The handler touches the database alone: it holds no reference to the
\* tasks and launches none.
update_website_info(url, interval, regexp_pattern) ==
    /\ LoopFree
    /\ mainpc \notin {"init", "created"}
    /\ \E e \in {UpdateEnd(db, url, interval, regexp_pattern, fault) :
                    fault \in UpdateFaults} :
          /\ response' = Some([handler |-> "update_website_info",
                               url |-> url, interval |-> interval,
                               regexp_pattern |-> regexp_pattern,
                               status |-> e.status])
          /\ db' = e.db
    /\ error_log' = None
    /\ flush_log' = None
    /\ event' = None
    /\ UNCHANGED <<mainpc, websites, wait, tasks, monitoring_results,
                   appended, sink_calls, tracking, probe>>

---------------------------------------------------------------------------
(* The engine *)

NoProbe == [phase |-> "none"]

\* The state after construction, before startup_event has run; the
\* histories are recorded or not.
InitEngine(recorded) ==
    /\ db \in InitialTables
    /\ mainpc = "init"
    /\ websites = <<>>
    /\ wait = 0
    /\ tasks = <<>>
    /\ monitoring_results = <<>>
    /\ appended = <<>>
    /\ sink_calls = <<>>
    /\ error_log = None
    /\ flush_log = None
    /\ response = None
    /\ event = None
    /\ tracking = recorded
    /\ probe = NoProbe

Init == InitEngine(TRUE)

\* The engine started on the sites of the table, no site being registered
\* later.
Next ==
    \/ startup_event
    \/ MonitorStart
    \/ MonitorWake
    \/ Flush
    \/ Tick
    \/ \E i \in 1..Len(tasks) : TaskStart(i)
    \/ \E i \in 1..Len(tasks) : TaskProbeDone(i)
    \/ \E i \in 1..Len(tasks) : TaskWake(i)

Spec == Init /\ [][Next]_vars

\* The engine together with the registration requests.
InitApi == InitEngine(FALSE)

NextApi ==
    \/ Next
    \/ \E n \in 1..Len(Sites), i \in Intervals :
          create_website_info(Sites[n].url, i, Sites[n].regexp_pattern)

SpecApi == InitApi /\ [][NextApi]_vars

\* The process is stopped and started again: the monitor, its tasks and its
\* deque are gone, the database stays.
Restart ==
    /\ mainpc # "init"
    /\ mainpc' = "init"
    /\ websites' = <<>>
    /\ wait' = 0
    /\ tasks' = <<>>
    /\ monitoring_results' = <<>>
    /\ Silent
    /\ UNCHANGED <<db, appended, sink_calls, tracking, probe>>

\* The engine together with the update requests and restarts.
NextUpdate ==
    \/ Next
    \/ \E n \in 1..Len(Sites), i \in Intervals, p \in UpdatePatterns :
          update_website_info(Sites[n].url, i, p)
    \/ Restart

\* The tables the process finds at its first start: the first site alone.
UpdateTables == TablesOf(1)

InitUpdate ==
    /\ InitEngine(FALSE)
    /\ db \in UpdateTables

SpecUpdate == InitUpdate /\ [][NextUpdate]_vars

---------------------------------------------------------------------------
(* The Prober called directly *)

\* regexp_pattern arguments: absent, "", "a" and "ba".
ProbePatterns == {None, Some(<<>>), Some(<<"a">>), Some(<<"b", "a">>)}

\* Readings of datetime.now() before the request (line 160), in seconds.
ProbeClock == {0, 7}

\* The reading after the request (lines 180, 184) less the reading before
\* it.  datetime.now() is the local wall clock, not a monotonic one: when
\* the clock is set back while the request is out (an hour at the end of
\* daylight saving time, a probe of one second) the difference is negative.
ProbeElapsed == {1 - 3600, 0, 1, REQUEST_TIMEOUT, REQUEST_TIMEOUT + 1}

Pending == [end |-> "pending", result |-> None, requests |-> <<>>]

\* Everything but probe is as after construction.
EngineIdle ==
    /\ db = <<>>
    /\ mainpc = "init"
    /\ websites = <<>>
    /\ wait = 0
    /\ tasks = <<>>
    /\ sink_calls = <<>>
    /\ error_log = None
    /\ flush_log = None
    /\ response = None
    /\ event = None
    /\ tracking = TRUE

InitProbe ==
    /\ EngineIdle
    /\ monitoring_results = <<>>
    /\ appended = <<>>
    /\ probe \in [phase : {"call"}, url : {"a.com"},
                  regexp_pattern : ProbePatterns,
                  transport : [https : Transports, http : Transports],
                  request_timestamp : ProbeClock, elapsed : ProbeElapsed,
                  out : {Pending}]

\* One call of check_website_availability.
ProbeCall ==
    /\ probe.phase = "call"
    /\ probe' = [probe EXCEPT
                    !.phase = "done",
                    !.out = check_website_availability(
                                probe.url, probe.regexp_pattern,
                                probe.transport, probe.request_timestamp,
                                probe.elapsed)]
    /\ UNCHANGED <<db, mainpc, websites, wait, tasks, monitoring_results,
                   appended, sink_calls, error_log, flush_log, response,
                   event, tracking>>

SpecProbe == InitProbe /\ [][ProbeCall]_vars

---------------------------------------------------------------------------
(* The Persister called directly on a filled deque *)

\* The longest deque save_website_monitoring_results is called on.
MaxBacklog == 102

\* The most calls made on one deque.
MaxCalls == 3

\* Status codes of the results of a filled deque, repeated in this order.
CodeCycle == <<200, 200, 404, 500, 200>>

\* The k-th result of a filled deque: appended by the Site Task of one of
\* the two sites, at second k.
BacklogItem(k) ==
    LET site == Sites[(k % Len(Sites)) + 1]
    IN  Stamp(WebsiteMonitoringResult(
                  k, k + 1, 1, CodeCycle[((k - 1) % Len(CodeCycle)) + 1],
                  None),
              [url |-> site.url, id |-> (k % Len(Sites)) + 1])

Backlog(n) == [k \in 1..n |-> BacklogItem(k)]

InitSave ==
    /\ EngineIdle
    /\ probe = NoProbe
    /\ \E n \in 0..MaxBacklog :
          /\ monitoring_results = Backlog(n)
          /\ appended = Backlog(n)

\* save_website_monitoring_results called as the tests call it, outside
\* monitor_websites: an exception of the sink reaches the caller.
DirectSave ==
    /\ Len(sink_calls) < MaxCalls
    /\ \E sink_ok \in BOOLEAN :
          LET s == save_website_monitoring_results(monitoring_results,
                                                   sink_ok)
          IN  /\ monitoring_results' = s.deque
              /\ sink_calls' = Record(sink_calls, SinkCall(s))
              /\ flush_log' = s.log
    /\ UNCHANGED <<db, mainpc, websites, wait, tasks, appended, error_log,
                   response, event, tracking, probe>>

SpecSave == InitSave /\ [][DirectSave]_vars

---------------------------------------------------------------------------
(* The Persister called directly on deques of every mix of status codes *)

\* The longest deque of mixed status codes.
MaxHist == 5

\* Status codes of the results of such a deque.
HistCodes == {200, 404, 500}

\* The deque whose k-th result has the status code codes[k].
HistBacklog(codes) ==
    [k \in 1..Len(codes) |->
        [BacklogItem(k) EXCEPT !.http_status_code = codes[k]]]

InitHist ==
    /\ EngineIdle
    /\ probe = NoProbe
    /\ \E n \in 0..MaxHist :
          \E codes \in [1..n -> HistCodes] :
             /\ monitoring_results = HistBacklog(codes)
             /\ appended = HistBacklog(codes)

SpecHist == InitHist /\ [][DirectSave]_vars

---------------------------------------------------------------------------
(* url_validator: get_formatted_url called directly *)

\* A url is a text, a sequence of characters.  The characters of the urls
\* below:
UrlUpper == {"W", "E", "H", "T", "P"}

UrlLetters == {"w", "e", "c", "o", "m", "h", "t", "p", "s", "f", "l", "a"} \cup UrlUpper

UrlDigits == {"1", "8"}

\* [A-Z0-9] under re.IGNORECASE.
AlNum == UrlLetters \cup UrlDigits

\* \s of the regular expression.
Whitespace == {" "}

\* str.lower on one character.
lower(c) ==
    CASE c = "W" -> "w"
      [] c = "E" -> "e"
      [] c = "H" -> "h"
      [] c = "T" -> "t"
      [] c = "P" -> "p"
      [] OTHER -> c

\* str.lower.
str_lower(s) == [i \in 1..Len(s) |-> lower(s[i])]

\* s[i:] of Python, i counted from 0.
From(s, i) == SubSeq(s, i + 1, Len(s))

\* s[:i] of Python.
UpTo(s, i) == SubSeq(s, 1, Min(i, Len(s)))

\* The least 0-based index of a character of chars in s, Len(s) if none.
FindAny(s, chars) ==
    IF \E i \in 1..Len(s) : s[i] \in chars
    THEN (CHOOSE i \in 1..Len(s) :
             /\ s[i] \in chars
             /\ \A j \in 1..(i - 1) : s[j] \notin chars) - 1
    ELSE Len(s)

\* str.split(sep) for a separator of one character.
RECURSIVE str_split(_, _)
str_split(s, sep) ==
    IF sep \notin {s[i] : i \in 1..Len(s)}
    THEN <<s>>
    ELSE <<UpTo(s, FindAny(s, {sep}))>> \o str_split(From(s, FindAny(s, {sep}) + 1), sep)

\* str.lstrip(chars) treats its argument as a set of characters and drops
\* every leading character that is in it.
RECURSIVE str_lstrip(_, _)
str_lstrip(s, chars) ==
    IF s # <<>> /\ Head(s) \in chars THEN str_lstrip(Tail(s), chars) ELSE s

AllIn(s, chars) == \A i \in 1..Len(s) : s[i] \in chars

\* Line 11: (?:http(s)?://)?
SchemePart(s) ==
    \/ s = <<>>
    \/ str_lower(s) = <<"h", "t", "t", "p", ":", "/", "/">>
    \/ str_lower(s) = <<"h", "t", "t", "p", "s", ":", "/", "/">>

\* Line 12: [A-Z0-9](?:[A-Z0-9-]{0,61}[A-Z0-9])? , one label of a domain.
DomainLabel(l) ==
    /\ Len(l) \in 1..63
    /\ l[1] \in AlNum
    /\ l[Len(l)] \in AlNum
    /\ AllIn(l, AlNum \cup {"-"})

\* Line 12: [A-Z]{2,6} or [A-Z0-9-]{2,} , the last label.
TopLabel(t) ==
    \/ Len(t) \in 2..6 /\ AllIn(t, UrlLetters)
    \/ Len(t) >= 2 /\ AllIn(t, AlNum \cup {"-"})

\* Line 12: one or more labels with a dot each, the last label, and a dot
\* or none.
DomainPart(s) ==
    LET parts == str_split(s, ".")
        body == IF Len(parts) >= 2 /\ parts[Len(parts)] = <<>>
                THEN UpTo(parts, Len(parts) - 1) ELSE parts
    IN  /\ Len(body) >= 2
        /\ \A i \in 1..(Len(body) - 1) : DomainLabel(body[i])
        /\ TopLabel(body[Len(body)])

\* Line 14: \d{1,3}\.\d{1,3}\.\d{1,3}\.\d{1,3}
IpPart(s) ==
    LET parts == str_split(s, ".")
    IN  /\ Len(parts) = 4
        /\ \A i \in 1..4 : Len(parts[i]) \in 1..3 /\ AllIn(parts[i], UrlDigits)

\* Lines 12-14: a domain, localhost or an ip.
HostPart(s) ==
    \/ DomainPart(s)
    \/ str_lower(s) = <<"l", "o", "c", "a", "l", "h", "o", "s", "t">>
    \/ IpPart(s)

\* Line 15: (?::\d+)?
PortPart(s) ==
    \/ s = <<>>
    \/ Len(s) >= 2 /\ s[1] = ":" /\ AllIn(Tail(s), UrlDigits)

\* Line 16: (?:/?|[/?]\S+)
PathPart(s) ==
    \/ s = <<>>
    \/ s = <<"/">>
    \/ /\ Len(s) >= 2
       /\ s[1] \in {"/", "?"}
       /\ \A i \in 2..Len(s) : s[i] \notin Whitespace

\* Lines 10-18, 30: re.match of URL_VALIDITY_REGEX, the whole url being
\* split into scheme, host, port and path in some way.
is_website_url_valid(url) ==
    \E i \in 0..Len(url) : \E j \in i..Len(url) : \E k \in j..Len(url) :
        /\ SchemePart(SubSeq(url, 1, i))
        /\ HostPart(SubSeq(url, i + 1, j))
        /\ PortPart(SubSeq(url, j + 1, k))
        /\ PathPart(SubSeq(url, k + 1, Len(url)))

\* Line 49: urllib.parse.urlparse, as far as netloc and path.  The text
\* before the first colon is the scheme when it starts with a letter and
\* holds letters, digits, "+", "-" and "." only; a netloc follows "//" and
\* ends before the first "/", "?" or "#"; the path ends before the first
\* "?" or "#".
urlparse(url) ==
    LET colon == FindAny(url, {":"})
        has_scheme == /\ colon > 0
                      /\ colon < Len(url)
                      /\ url[1] \in UrlLetters
                      /\ AllIn(UpTo(url, colon), AlNum \cup {"+", "-", "."})
        rest == IF has_scheme THEN From(url, colon + 1) ELSE url
        has_netloc == UpTo(rest, 2) = <<"/", "/">>
        after == IF has_netloc THEN From(rest, 2) ELSE rest
        netloc_end == FindAny(after, {"/", "?", "#"})
        tail == IF has_netloc THEN From(after, netloc_end) ELSE after
    IN  [netloc |-> IF has_netloc THEN UpTo(after, netloc_end) ELSE <<>>,
         path |-> UpTo(tail, FindAny(tail, {"?", "#"}))]

\* Line 51: clean_url.lstrip("www.").lower()
format(clean_url) == str_lower(str_lstrip(clean_url, {"w", "."}))

\* Lines 46-51.
get_formatted_url(url, skip_validation) ==
    IF ~skip_validation /\ ~is_website_url_valid(url)
    THEN [raised |-> Some("InvalidUrlException"), value |-> None]
    ELSE LET parser == urlparse(url)
             clean_url == IF parser.netloc # <<>> THEN parser.netloc
                          ELSE str_split(parser.path, "/")[1]
         IN  [raised |-> None, value |-> Some(format(clean_url))]

\* The urls passed: a scheme or none, a host, a port or none, a path or
\* none.
UrlSchemes ==
    { <<>>,
      <<"h", "t", "t", "p", ":", "/", "/">>,
      <<"h", "t", "t", "p", "s", ":", "/", "/">>,
      <<"H", "T", "T", "P", ":", "/", "/">>,
      <<"f", "t", "p", ":", "/", "/">> }

UrlHosts ==
    { <<"e", ".", "c", "o">>,
      <<"E", ".", "c", "o">>,
      <<"w", "w", "w", ".", "e", ".", "c", "o">>,
      <<"W", "W", "W", ".", "e", ".", "c", "o">>,
      <<"w", "w", "w", ".", "w", "e", ".", "c", "o">>,
      <<"w", "e", ".", "c", "o">>,
      <<"e", ".", "c", "o", ".">>,
      <<"l", "o", "c", "a", "l", "h", "o", "s", "t">>,
      <<"1", ".", "1", ".", "1", ".", "1">>,
      <<"e">>,
      <<"e", ".", ".">>,
      <<"e", " ", "c", "o">>,
      <<>> }

UrlPorts == { <<>>, <<":", "8">> }

UrlPaths == { <<>>, <<"/">>, <<"/", "p">>, <<"?", "p">> }

Urls == {s \o h \o p \o q : s \in UrlSchemes, h \in UrlHosts, p \in UrlPorts, q \in UrlPaths}

InitUrl ==
    /\ EngineIdle
    /\ monitoring_results = <<>>
    /\ appended = <<>>
    /\ probe \in [phase : {"format"}, url : Urls,
                  skip_validation : BOOLEAN, out : {None}]

\* One call of get_formatted_url.
FormatCall ==
    /\ probe.phase = "format"
    /\ probe' = [probe EXCEPT
                    !.phase = "formatted",
                    !.out = Some(get_formatted_url(probe.url,
                                                   probe.skip_validation))]
    /\ UNCHANGED <<db, mainpc, websites, wait, tasks, monitoring_results,
                   appended, sink_calls, error_log, flush_log, response,
                   event, tracking>>

SpecUrl == InitUrl /\ [][FormatCall]_vars

---------------------------------------------------------------------------
(* The engine with registrations, the histories recorded *)

\* The table at startup holds the first site, with an interval; the second
\* is registered while the engine runs.
RunTables ==
    {insert_website_data(<<>>, [url |-> Sites[1].url, interval |-> Some(1),
                                regexp_pattern |-> Sites[1].regexp_pattern])}

InitRun ==
    /\ InitEngine(TRUE)
    /\ db \in RunTables

\* The sites registered while the engine runs have an interval.
NextRun ==
    \/ Next
    \/ \E n \in 1..Len(Sites) :
          create_website_info(Sites[n].url, Some(1), Sites[n].regexp_pattern)

SpecRun == InitRun /\ [][NextRun]_vars

---------------------------------------------------------------------------
(* The engine found with a backlog in its deque *)

\* The table of the two sites, each probed every second.
BusyTable ==
    CHOOSE t \in TablesOf(Len(Sites)) :
        \A k \in 1..Len(t) : t[k].interval = Some(1)

\* The lengths of the deque: up to one result, or a batch or more.
DrainSizes ==
    {n \in 0..MaxBacklog : n <= 1 \/ n >= RESULTS_BATCH_SAVE_SIZE - 1}

\* monitor_websites asleep in line 108 while the Site Tasks wait for their
\* probes; the results appended since the last flush, more than a batch of
\* them when many probes have ended meanwhile, are in the deque.
InitDrain ==
    /\ db = BusyTable
    /\ websites = BusyTable
    /\ mainpc = "sleeping"
    /\ wait \in 0..RESULTS_WORKER_WAIT_TIME
    /\ tasks = [i \in 1..Len(BusyTable) |->
                   [NewTask(BusyTable[i]) EXCEPT !.pc = "probing"]]
    /\ \E n \in DrainSizes :
          /\ monitoring_results = Backlog(n)
          /\ appended = Backlog(n)
    /\ sink_calls = <<>>
    /\ error_log = None
    /\ flush_log = None
    /\ response = None
    /\ event = None
    /\ tracking = TRUE
    /\ probe = NoProbe

NextDrain ==
    \/ MonitorWake
    \/ Flush
    \/ Tick
    \/ \E i \in 1..Len(tasks) : TaskProbeDone(i)
    \/ \E i \in 1..Len(tasks) : TaskWake(i)

SpecDrain == InitDrain /\ [][NextDrain]_vars

---------------------------------------------------------------------------
(* The engine, and the Persister called directly before it is started *)

\* The tables at startup: one site, or two sites probed every second.
LoopTables == RunTables \cup {BusyTable}

InitLoop ==
    /\ InitEngine(TRUE)
    /\ db \in LoopTables

\* save_website_monitoring_results called on the monitor as constructed,
\* before monitor_websites runs: its deque is empty.
DirectFlush ==
    /\ mainpc = "init"
    /\ sink_calls = <<>>
    /\ DirectSave

NextLoop ==
    \/ Next
    \/ DirectFlush

SpecLoop == InitLoop /\ [][NextLoop]_vars

---------------------------------------------------------------------------
(* The engine with every request handler *)

InitOps ==
    /\ InitEngine(FALSE)
    /\ db \in RunTables

\* Requests that register a site with an interval, and requests that set
\* the interval of a site to 0.
NextOps ==
    \/ Next
    \/ \E n \in 1..Len(Sites) :
          create_website_info(Sites[n].url, Some(1), Sites[n].regexp_pattern)
    \/ \E n \in 1..Len(Sites) :
          update_website_info(Sites[n].url, Some(0), None)

SpecOps == InitOps /\ [][NextOps]_vars

---------------------------------------------------------------------------
(* The engine under fair scheduling *)

\* The event loop runs every coroutine that is ready, and time passes.  The
\* histories are not recorded, so that the engine can run for ever.
Fairness ==
    /\ SF_vars(Tick)
    /\ SF_vars(MonitorWake)
    /\ SF_vars(Flush)
    /\ \A i \in 1..Len(Sites) : SF_vars(i <= Len(tasks) /\ TaskWake(i))

SpecLive == InitEngine(FALSE) /\ [][Next]_vars /\ Fairness

\* The same with the histories recorded: the engine runs until MaxAppends
\* results have been appended, and the loop of monitor_websites goes on.
InitLiveRun ==
    /\ InitEngine(TRUE)
    /\ db \in RunTables

SpecLiveRun == InitLiveRun /\ [][Next]_vars /\ Fairness

---------------------------------------------------------------------------
(* Properties *)

Last(seq) == seq[Len(seq)]

\* The step just taken called batch_insert_monitoring_data.
SinkCalled == Len(sink_calls') = Len(sink_calls) + 1

\* C1: when the Result Sink raises on a non-empty batch, the popped results
\* are not put back (the deque is left with what followed the popped prefix,
\* so it is empty when it held at most RESULTS_BATCH_SAVE_SIZE results), the
\* error is logged, and monitor_websites goes on with its loop.
C1_SinkFailureDropsBatch ==
    [][(SinkCalled /\ Last(sink_calls').raised
            /\ Last(sink_calls').monitoring_data # <<>>)
        => LET batch == Last(sink_calls').monitoring_data
               n == Len(batch)
           IN  /\ batch = SubSeq(monitoring_results, 1, n)
               /\ monitoring_results' =
                      SubSeq(monitoring_results, n + 1,
                             Len(monitoring_results))
               /\ Len(monitoring_results) <= RESULTS_BATCH_SAVE_SIZE
                      => monitoring_results' = <<>>
               /\ error_log' # None
               /\ mainpc' = IF monitoring_results' = <<>>
                            THEN "sleeping" ELSE "running"]_vars

C1_Witness ==
    /\ sink_calls # <<>>
    /\ Last(sink_calls).raised
    /\ Len(Last(sink_calls).monitoring_data) = 2
    /\ monitoring_results = <<>>
    /\ error_log # None
    /\ mainpc = "sleeping"

\* The tasks of the site with this id that are in their probe loop.
ActiveTasksOf(id) ==
    {i \in 1..Len(tasks) : tasks[i].website_data.id = id /\ InLoop(tasks[i])}

\* C2 as stated: every site whose task has had its first run has exactly one
\* active Site Task when its interval is non-zero, and none otherwise.
C2_ExactlyOneActiveTask ==
    \A i \in 1..Len(tasks) :
        tasks[i].pc # "created"
        => Cardinality(ActiveTasksOf(tasks[i].website_data.id))
               = IF TruthyInt(tasks[i].website_data.interval) THEN 1 ELSE 0

\* C2, amended: at most one Site Task exists per site; once monitor_websites
\* has started every site of its list has a task; a task launched with a
\* non-zero interval is, after its first run, in its probe loop unless a
\* transport failure has ended it; a task launched with a zero or absent
\* interval is never in the probe loop.
C2_AtMostOneTaskPerSite ==
    /\ \A i, j \in 1..Len(tasks) :
           tasks[i].website_data.id = tasks[j].website_data.id => i = j
    /\ mainpc \notin {"init", "created"}
           => \A k \in 1..Len(websites) :
                  \E i \in 1..Len(tasks) : tasks[i].website_data = websites[k]
    /\ \A i \in 1..Len(tasks) :
           IF TruthyInt(tasks[i].website_data.interval)
           THEN tasks[i].pc \in {"created", "probing", "sleeping", "failed"}
           ELSE tasks[i].pc \in {"created", "returned"}

C2_Witness ==
    /\ Len(tasks) = 2
    /\ tasks[1].pc = "failed"
    /\ TruthyInt(tasks[1].website_data.interval)
    /\ tasks[2].pc = "sleeping"
    /\ Len(websites) = 1

\* C3: when N results are appended to an empty deque and no pop comes in
\* between, a flush with RESULTS_BATCH_SAVE_SIZE >= N hands the sink exactly
\* those N results, in the order they were appended.
C3_FlushInAppendOrder ==
    \A k \in 1..Len(sink_calls) :
        LET before == IF k = 1 THEN 0 ELSE sink_calls[k - 1].n_appended
            left == IF k = 1 THEN 0 ELSE sink_calls[k - 1].left
            N == sink_calls[k].n_appended - before
        IN  (left = 0 /\ N <= RESULTS_BATCH_SAVE_SIZE)
            => sink_calls[k].monitoring_data
                   = SubSeq(appended, before + 1, before + N)

C3_Witness ==
    /\ Len(sink_calls) = 1
    /\ Len(sink_calls[1].monitoring_data) = 2
    /\ sink_calls[1].monitoring_data[1].website_id
           # sink_calls[1].monitoring_data[2].website_id
    /\ sink_calls[1].monitoring_data = appended

\* C4: every call of save_website_monitoring_results makes one call of the
\* sink, with the first min(len(deque), RESULTS_BATCH_SAVE_SIZE) results of
\* the deque, and leaves the rest of the deque in place and in order.
C4_BatchSizeBound ==
    [][monitoring_results' # monitoring_results \/ sink_calls' # sink_calls
        => LET n == Min(Len(monitoring_results), RESULTS_BATCH_SAVE_SIZE)
           IN  /\ SinkCalled
               /\ Len(Last(sink_calls').monitoring_data)
                      <= RESULTS_BATCH_SAVE_SIZE
               /\ Last(sink_calls').monitoring_data
                      = SubSeq(monitoring_results, 1, n)
               /\ monitoring_results'
                      = SubSeq(monitoring_results, n + 1,
                               Len(monitoring_results))]_vars

C4_Witness ==
    /\ Len(sink_calls) = 1
    /\ Len(sink_calls[1].monitoring_data) = RESULTS_BATCH_SAVE_SIZE
    /\ Len(monitoring_results) = 2
    /\ monitoring_results = SubSeq(appended, RESULTS_BATCH_SAVE_SIZE + 1,
                                   Len(appended))

\* C5: a Site Task of a site whose interval is 0 or None ends at its first
\* run without calling the Prober, no result of such a site is ever
\* appended, and monitor_websites launches a task for every site of its
\* list, such sites included.
C5_NoIntervalNoProbe ==
    /\ \A i \in 1..Len(tasks) :
           ~TruthyInt(tasks[i].website_data.interval)
           => /\ tasks[i].pc \in {"created", "returned"}
              /\ \A k \in 1..Len(appended) :
                     appended[k].website_id
                         # Some(tasks[i].website_data.id)
              /\ event # None => event[1].task # i
    /\ mainpc \notin {"init", "created"}
           => /\ Len(tasks) = Len(websites)
              /\ \A k \in 1..Len(websites) :
                     tasks[k].website_data = websites[k]

C5_Witness ==
    /\ Len(tasks) = 2
    /\ tasks[1].website_data.interval = Some(0)
    /\ tasks[1].pc = "returned"
    /\ tasks[2].pc = "sleeping"
    /\ Len(appended) = 2

\* The probe called directly has ended, and this is what the network did to
\* its https request.
ProbeDone(wire) ==
    /\ probe.phase = "done"
    /\ WireEvent(probe.regexp_pattern, probe.transport.https) = wire

\* C6: when the request of a probe or the body read of its GET times out,
\* the Prober raises nothing and returns a result with status 408, a
\* response_time of REQUEST_TIMEOUT whatever time has passed, and
\* is_regex_pattern_compliant unset, with or without a pattern.
C6_TimeoutResult ==
    ProbeDone("timeout")
    => /\ probe.out.end = "return"
       /\ probe.out.result # None
       /\ probe.out.result[1].http_status_code = HTTP_REQUEST_TIMEOUT
       /\ probe.out.result[1].response_time = REQUEST_TIMEOUT
       /\ probe.out.result[1].is_regex_pattern_compliant = None

C6_Witness ==
    /\ ProbeDone("timeout")
    /\ probe.regexp_pattern = Some(<<"a">>)
    /\ probe.transport.https.connect = "ok"
    /\ probe.elapsed = REQUEST_TIMEOUT + 1
    /\ probe.out.result[1].response_time = REQUEST_TIMEOUT

\* The step just taken ended a probe of task i, the network having done
\* this to it.
ProbeEnded(i, wire) ==
    /\ event' # None
    /\ event'[1].task = i
    /\ event'[1].wire = wire

\* C7: a transport failure other than a timeout adds no result and ends the
\* Site Task of that site only: the task stays ended and appends nothing
\* more, every other task and monitor_websites are left as they were, and
\* only a task that was probing ever appends.
C7_FailureEndsOnlyThatTask ==
    [][/\ \A i \in 1..Len(tasks) :
              /\ ProbeEnded(i, "client_error")
                 => /\ tasks[i].pc = "probing"
                    /\ tasks'[i].pc = "failed"
                    /\ Len(tasks') = Len(tasks)
                    /\ \A j \in 1..Len(tasks) : j # i => tasks'[j] = tasks[j]
                    /\ monitoring_results' = monitoring_results
                    /\ appended' = appended
                    /\ sink_calls' = sink_calls
                    /\ mainpc' = mainpc
                    /\ wait' = wait
              /\ tasks[i].pc = "failed" => tasks'[i] = tasks[i]
       /\ appended' # appended
              => /\ event' # None
                 /\ tasks[event'[1].task].pc = "probing"]_vars

C7_Witness ==
    /\ Len(tasks) = 2
    /\ tasks[1].pc = "failed"
    /\ tasks[2].pc = "sleeping"
    /\ event = Some([task |-> 2, wire |-> "ok"])
    /\ sink_calls # <<>>
    /\ \A k \in 1..Len(appended) :
           appended[k].website_id = Some(tasks[2].website_data.id)

\* C8: a probe that times out does not end the Site Task: the task appends
\* the result made up for the timeout (status 408, response_time
\* REQUEST_TIMEOUT), sleeps for its interval, and then probes again.
C8_TimeoutKeepsTask ==
    /\ [][\A i \in 1..Len(tasks) :
              ProbeEnded(i, "timeout")
              => /\ tasks'[i].pc = "sleeping"
                 /\ tasks'[i].sleep = tasks[i].website_data.interval[1]
                 /\ Len(monitoring_results')
                        = Len(monitoring_results) + 1
                 /\ SubSeq(monitoring_results', 1, Len(monitoring_results))
                        = monitoring_results
                 /\ Last(monitoring_results').http_status_code
                        = HTTP_REQUEST_TIMEOUT
                 /\ Last(monitoring_results').response_time
                        = REQUEST_TIMEOUT
                 /\ Last(monitoring_results').website_id
                        = Some(tasks[i].website_data.id)]_vars
    /\ \A i \in 1..Len(Sites) :
           (event = Some([task |-> i, wire |-> "timeout"]))
               ~> (i <= Len(tasks) /\ tasks[i].pc = "probing")

C8_Witness ==
    /\ event = Some([task |-> 1, wire |-> "timeout"])
    /\ tasks[1].pc = "sleeping"
    /\ tasks[1].sleep = 1
    /\ Len(monitoring_results) = 2
    /\ monitoring_results[1].http_status_code = HTTP_REQUEST_TIMEOUT
    /\ monitoring_results[2].http_status_code = HTTP_REQUEST_TIMEOUT
    /\ monitoring_results[1].website_id = monitoring_results[2].website_id

\* C9: every result in the deque carries a url and a website_id that are
\* not None and are those of the site of a Site Task with an interval, and
\* the result a task has just appended carries the url and id of that
\* task's own site.
C9_ResultsCarrySite ==
    /\ \A k \in 1..Len(monitoring_results) :
           /\ monitoring_results[k].url # None
           /\ monitoring_results[k].website_id # None
           /\ \E i \in 1..Len(tasks) :
                  /\ monitoring_results[k].url
                         = Some(tasks[i].website_data.url)
                  /\ monitoring_results[k].website_id
                         = Some(tasks[i].website_data.id)
                  /\ TruthyInt(tasks[i].website_data.interval)
    /\ (event # None /\ event[1].wire # "client_error")
           => /\ monitoring_results # <<>>
              /\ Last(monitoring_results).url
                     = Some(tasks[event[1].task].website_data.url)
              /\ Last(monitoring_results).website_id
                     = Some(tasks[event[1].task].website_data.id)

C9_Witness ==
    /\ Len(monitoring_results) = 2
    /\ monitoring_results[1].website_id = Some(2)
    /\ monitoring_results[2].website_id = Some(1)
    /\ event # None
    /\ event[1].task = 1

\* The pattern occurs somewhere in the body.
Occurs(pattern, body) ==
    \E i \in 1..(Len(body) + 1) :
        \E j \in (i - 1)..Len(body) : SubSeq(body, i, j) = pattern

\* C10: a probe that gets an answer.  Without a pattern (regexp_pattern None
\* or empty) the Prober sends one HEAD request, reads no body and returns
\* the status of the answer with is_regex_pattern_compliant unset; with a
\* pattern it sends one GET request, reads the body and returns
\* is_regex_pattern_compliant true when the pattern occurs somewhere in the
\* body and false when it does not.
C10_RequestAndCompliance ==
    ProbeDone("ok")
    => LET t == probe.transport.https
           out == probe.out
       IN  /\ out.end = "return"
           /\ out.result # None
           /\ out.result[1].http_status_code = t.status
           /\ Len(out.requests) = 1
           /\ IF TruthyText(probe.regexp_pattern)
              THEN /\ out.requests[1].method = "GET"
                   /\ out.requests[1].read_body
                   /\ out.result[1].is_regex_pattern_compliant
                          = Some(Occurs(probe.regexp_pattern[1], t.text))
              ELSE /\ out.requests[1].method = "HEAD"
                   /\ ~out.requests[1].read_body
                   /\ out.result[1].is_regex_pattern_compliant = None

C10_Witness ==
    /\ ProbeDone("ok")
    /\ probe.regexp_pattern = Some(<<"a">>)
    /\ probe.transport.https.text = <<"b", "a">>
    /\ probe.transport.https.status = 404
    /\ probe.out.result[1].is_regex_pattern_compliant = Some(TRUE)
    /\ probe.out.result[1].http_status_code = 404

\* The probe called directly has returned a result.
ProbeReturned ==
    /\ probe.phase = "done"
    /\ probe.out.end = "return"
    /\ probe.out.result # None

\* C11 as stated: in every result the Prober returns,
\* is_regex_pattern_compliant is unset exactly when no pattern was given
\* (the empty pattern counted as none).
C11_UnsetIffNoPattern ==
    ProbeReturned
    => (probe.out.result[1].is_regex_pattern_compliant = None
            <=> probe.regexp_pattern \in {None, Some(<<>>)})

\* C11, amended: in a result made from an answer of the site,
\* is_regex_pattern_compliant is unset exactly when the pattern is absent or
\* empty and is a boolean otherwise; in the result made up for a timeout it
\* is unset whatever the pattern.
C11_ComplianceTriState ==
    ProbeReturned
    => LET c == probe.out.result[1].is_regex_pattern_compliant
           no_pattern == probe.regexp_pattern \in {None, Some(<<>>)}
           timed_out == ProbeDone("timeout")
       IN  /\ c \in {None, Some(TRUE), Some(FALSE)}
           /\ timed_out => c = None
           /\ ~timed_out => (c = None <=> no_pattern)

C11_Witness ==
    /\ ProbeReturned
    /\ probe.regexp_pattern = Some(<<"a">>)
    /\ probe.transport.https.connect = "ok"
    /\ probe.transport.https.read = "timeout"
    /\ probe.out.result[1].is_regex_pattern_compliant = None
    /\ probe.out.result[1].http_status_code = HTTP_REQUEST_TIMEOUT

\* C12: one call of the Prober makes exactly one request, over https,
\* however it ends: an answer of the site, whatever its status, is returned
\* as the result, a timeout is returned as the made-up result, a transport
\* failure is raised, and no http request follows the https one.
C12_SingleHttpsAttempt ==
    probe.phase = "done"
    => LET out == probe.out
           t == probe.transport.https
       IN  /\ Len(out.requests) = 1
           /\ out.requests[1].target_url = <<"https", probe.url>>
           /\ \A k \in 1..Len(out.requests) :
                  out.requests[k].target_url[1] # "http"
           /\ ProbeDone("ok")
                  => /\ out.end = "return"
                     /\ out.result # None
                     /\ out.result[1].http_status_code = t.status
           /\ ProbeDone("timeout")
                  => /\ out.end = "return"
                     /\ out.result # None
                     /\ out.result[1].http_status_code = HTTP_REQUEST_TIMEOUT
           /\ ProbeDone("client_error")
                  => /\ out.end = "raise"
                     /\ out.result = None

C12_Witness ==
    /\ ProbeDone("client_error")
    /\ probe.transport.http.connect = "ok"
    /\ probe.transport.http.status = 200
    /\ probe.out.end = "raise"
    /\ Len(probe.out.requests) = 1

\* The tasks of the site with this id that have a probe in flight.
ProbingTasksOf(id) ==
    {i \in 1..Len(tasks) :
        tasks[i].website_data.id = id /\ tasks[i].pc = "probing"}

\* The step just taken let a second pass for task i.
SecondPassed(i) ==
    /\ tasks[i].pc = "sleeping"
    /\ tasks'[i].pc = "sleeping"
    /\ tasks'[i].sleep = tasks[i].sleep - 1

\* C13: the probes of a site never overlap and the pause between them is a
\* whole interval.  A task starts a probe only at its first run or after a
\* sleep that has run out; a probe that returns appends its result and
\* starts a sleep of the whole interval in the same step; a sleep loses a
\* second only when a second passes for every sleeper; and no site ever has
\* two probes in flight.
C13_NoOverlapFullInterval ==
    /\ [][\A i \in 1..Len(tasks) :
              /\ (tasks[i].pc # "probing" /\ tasks'[i].pc = "probing")
                     => \/ tasks[i].pc = "created"
                        \/ tasks[i].pc = "sleeping" /\ tasks[i].sleep = 0
              /\ (tasks[i].pc = "probing" /\ tasks'[i].pc # "probing")
                     => \/ ProbeEnded(i, "client_error")
                        \/ /\ tasks'[i].pc = "sleeping"
                           /\ tasks'[i].sleep
                                  = tasks[i].website_data.interval[1]
                           /\ Len(appended') = Len(appended) + 1
                           /\ Last(appended').website_id
                                  = Some(tasks[i].website_data.id)
                           /\ Last(monitoring_results') = Last(appended')
              /\ (tasks[i].pc = "sleeping" /\ tasks'[i].pc = "sleeping")
                     => \/ tasks'[i].sleep = tasks[i].sleep
                        \/ /\ SecondPassed(i)
                           /\ \A j \in 1..Len(tasks) :
                                  (tasks[j].pc = "sleeping"
                                       /\ tasks[j].sleep > 0)
                                  => SecondPassed(j)]_vars
    /\ [](\A i \in 1..Len(tasks) :
              Cardinality(ProbingTasksOf(tasks[i].website_data.id)) <= 1)

C13_Witness ==
    /\ Len(tasks) = 2
    /\ tasks[1].pc = "probing"
    /\ tasks[2].pc = "probing"
    /\ Len(appended) = 2
    /\ appended[1].website_id = Some(tasks[1].website_data.id)
    /\ appended[2].website_id = Some(tasks[2].website_data.id)
    /\ monitoring_results = appended

\* The number of results of the site with this id in a sequence of results.
ResultsOf(seq, id) ==
    Cardinality({k \in 1..Len(seq) : seq[k].website_id = Some(id)})

\* The step just taken ended a probe of task i that returned a result.
ProbeReturnedTo(i) ==
    ProbeEnded(i, "ok") \/ ProbeEnded(i, "timeout")

\* C14: monitor_websites launches one Site Task per entry of its list, in
\* the order of the list; every probe of a task that returns appends exactly
\* one result, of that task's site, and nothing else appends; and until the
\* first flush the deque holds exactly what was appended, so that after the
\* first probes it holds one result for each site whose probe returned and
\* none for a site without an interval or whose task has not finished a
\* probe.
C14_OneTaskPerSiteOneResultPerProbe ==
    /\ [](mainpc \notin {"init", "created"}
              => /\ Len(tasks) = Len(websites)
                 /\ \A k \in 1..Len(websites) :
                        tasks[k].website_data = websites[k])
    /\ [][\A i \in 1..Len(tasks) :
              LET id == tasks[i].website_data.id
              IN  IF ProbeReturnedTo(i)
                  THEN /\ ResultsOf(appended', id)
                              = ResultsOf(appended, id) + 1
                       /\ Len(appended') = Len(appended) + 1
                       /\ Len(monitoring_results')
                              = Len(monitoring_results) + 1
                       /\ Last(monitoring_results').website_id = Some(id)
                  ELSE ResultsOf(appended', id) = ResultsOf(appended, id)]_vars
    /\ [](sink_calls = <<>>
              => /\ monitoring_results = appended
                 /\ \A i \in 1..Len(tasks) :
                        LET n == ResultsOf(monitoring_results,
                                           tasks[i].website_data.id)
                        IN  /\ tasks[i].pc \in {"created", "returned"}
                                   => n = 0
                            /\ tasks[i].pc = "sleeping" => n >= 1
                            /\ ~TruthyInt(tasks[i].website_data.interval)
                                   => n = 0)

C14_Witness ==
    /\ sink_calls = <<>>
    /\ Len(websites) = 2
    /\ Len(tasks) = 2
    /\ tasks[1].pc = "sleeping"
    /\ tasks[2].pc = "sleeping"
    /\ Len(monitoring_results) = 2
    /\ ResultsOf(monitoring_results, 1) = 1
    /\ ResultsOf(monitoring_results, 2) = 1
    /\ mainpc = "sleeping"

\* The number of results of a batch with this status code.
CodeCount(batch, code) ==
    Cardinality({k \in 1..Len(batch) : batch[k].http_status_code = code})

\* The place of the first result of a batch with this status code.
FirstAt(batch, code) ==
    CHOOSE k \in 1..Len(batch) :
        /\ batch[k].http_status_code = code
        /\ \A j \in 1..(k - 1) : batch[j].http_status_code # code

RECURSIVE SumCounts(_)
SumCounts(items) ==
    IF items = <<>> THEN 0 ELSE Head(items).count + SumCounts(Tail(items))

\* C15: the histogram logged by a flush counts exactly the results of the
\* batch handed to the sink: each of its codes occurs in the batch and has
\* the number of batch results with that code as its count, every code of
\* the batch is in it once, the counts add up to the size of the batch,
\* which is the size logged, and the codes are in the order of
\* non-increasing count, codes of equal count in the order of their first
\* occurrence in the batch.
C15_HistogramOfBatch ==
    (sink_calls # <<>> /\ flush_log # None)
    => LET batch == Last(sink_calls).monitoring_data
           h == flush_log[1].breakdown
       IN  /\ flush_log[1].saved = Len(batch)
           /\ \A k \in 1..Len(h) :
                  /\ h[k].count >= 1
                  /\ h[k].count = CodeCount(batch, h[k].code)
                  /\ \A l \in 1..Len(h) : h[l].code = h[k].code => l = k
           /\ \A k \in 1..Len(batch) :
                  \E l \in 1..Len(h) : h[l].code = batch[k].http_status_code
           /\ SumCounts(h) = Len(batch)
           /\ \A k, l \in 1..Len(h) :
                  k < l
                  => \/ h[k].count > h[l].count
                     \/ /\ h[k].count = h[l].count
                        /\ FirstAt(batch, h[k].code)
                               < FirstAt(batch, h[l].code)

C15_Witness ==
    /\ Len(sink_calls) = 1
    /\ flush_log # None
    /\ Len(sink_calls[1].monitoring_data) = 5
    /\ \A k \in 1..5 :
           sink_calls[1].monitoring_data[k].http_status_code
               = <<500, 404, 200, 200, 404>>[k]
    /\ flush_log[1].breakdown
           = <<[code |-> 404, count |-> 2], [code |-> 200, count |-> 2],
               [code |-> 500, count |-> 1]>>

\* The step just taken served a request of this handler.
Served(handler) ==
    /\ response' # None
    /\ response'[1].handler = handler

\* C16: an update_website_info request changes the website table alone:
\* every Site Task, the deque and monitor_websites are left as they were,
\* no task is started or ended, and the website_data of a task never
\* changes while the task exists.  The table is read when the process
\* starts, and the tasks launched then carry the rows as they are stored
\* at that time.
C16_UpdateLeavesTasks ==
    /\ [][/\ Served("update_website_info")
                 => /\ tasks' = tasks
                    /\ websites' = websites
                    /\ monitoring_results' = monitoring_results
                    /\ mainpc' = mainpc
                    /\ wait' = wait
          /\ \A i \in 1..Len(tasks) :
                 i <= Len(tasks')
                 => tasks'[i].website_data = tasks[i].website_data
          /\ (mainpc = "init" /\ mainpc' = "created") => websites' = db]_vars
    /\ [](mainpc \notin {"init", "created"}
              => /\ Len(tasks) = Len(websites)
                 /\ \A k \in 1..Len(tasks) :
                        tasks[k].website_data = websites[k])

C16_Witness ==
    /\ response # None
    /\ response[1].handler = "update_website_info"
    /\ response[1].status = 200
    /\ response[1].interval = Some(0)
    /\ Len(tasks) = 1
    /\ tasks[1].pc = "sleeping"
    /\ tasks[1].website_data.interval = Some(1)
    /\ tasks[1].website_data.regexp_pattern = Some(<<"b">>)
    /\ db[1].interval = Some(0)
    /\ db[1].regexp_pattern = Some(<<"b">>)

\* The url of the request just served was stored before the request.
ServedStored(handler) ==
    /\ Served(handler)
    /\ get_website_data(db, Some(response'[1].url)) # <<>>

\* C17: a create_website_info request for a url that is stored is answered
\* 400 (500 when the read of the database fails) and changes nothing: no
\* row is inserted and no Site Task is launched; and 400 is the answer to
\* such a request only.
C17_CreateExistingRejected ==
    [][/\ ServedStored("create_website_info")
              => /\ response'[1].status \in {400, 500}
                 /\ db' = db
                 /\ tasks' = tasks
                 /\ monitoring_results' = monitoring_results
       /\ (Served("create_website_info") /\ response'[1].status = 400)
              => ServedStored("create_website_info")]_vars

C17_Witness ==
    /\ response # None
    /\ response[1].handler = "create_website_info"
    /\ response[1].status = 400
    /\ Len(db) = 1
    /\ db[1].url = response[1].url
    /\ Len(tasks) = 1
    /\ tasks[1].pc = "failed"

C20_ResponseTimeNonNegative ==
    ProbeReturned
    => LET r == probe.out.result[1]
       IN  /\ r.response_time >= 0
           /\ r.request_timestamp = probe.request_timestamp
           /\ r.response_timestamp = probe.request_timestamp + probe.elapsed
           /\ ProbeDone("ok")
                  => r.response_time
                         = r.response_timestamp - r.request_timestamp
           /\ ProbeDone("timeout") => r.response_time = REQUEST_TIMEOUT

\* A probe answered while the wall clock was set back.
C20_Witness ==
    /\ ProbeReturned
    /\ ProbeDone("ok")
    /\ probe.elapsed < 0
    /\ probe.out.result[1].response_time
           = probe.out.result[1].response_timestamp
                 - probe.out.result[1].request_timestamp
    /\ probe.out.result[1].response_time < 0
    /\ probe.out.result[1].http_status_code = 200


---------------------------------------------------------------------------
(* C21 *)

\* The texts that the regular expression can take for the host of a valid
\* url, each with and without the port that follows it.
HostsOf(url) ==
    UNION {{SubSeq(url, i + 1, j), SubSeq(url, i + 1, k)} :
           <<i, j, k>> \in {s \in (0..Len(url)) \X (0..Len(url)) \X (0..Len(url)) :
                              /\ s[1] <= s[2]
                              /\ s[2] <= s[3]
                              /\ SchemePart(SubSeq(url, 1, s[1]))
                              /\ HostPart(SubSeq(url, s[1] + 1, s[2]))
                              /\ PortPart(SubSeq(url, s[2] + 1, s[3]))
                              /\ PathPart(SubSeq(url, s[3] + 1, Len(url)))}}

\* A text less its prefix "www.", if it has one.
WithoutWww(s) ==
    IF UpTo(s, 4) = <<"w", "w", "w", ".">> THEN From(s, 4) ELSE s

\* C21: get_formatted_url raises InvalidUrlException for an invalid url
\* unless skip_validation is set, and for a valid url it returns the host
\* (scheme and path removed; the port counted as part of the host or not)
\* less a leading "www." and in lower case (the prefix removed before or
\* after lowering), nothing else being removed.
C21_HostLessWwwLowered ==
    probe.phase = "formatted" =>
        LET out == probe.out[1]
            valid == is_website_url_valid(probe.url)
        IN  /\ (~valid /\ ~probe.skip_validation) =>
                   out.raised = Some("InvalidUrlException")
            /\ valid =>
                   /\ out.raised = None
                   /\ \E h \in HostsOf(probe.url) :
                         out.value[1] \in {str_lower(WithoutWww(h)),
                                           WithoutWww(str_lower(h))}

\* "www.we.co" has been formatted: the value is "e.co", the "w" of the
\* host "we.co" having gone with the prefix.
C21_Witness ==
    /\ probe.phase = "formatted"
    /\ probe.url = <<"w", "w", "w", ".", "w", "e", ".", "c", "o">>
    /\ ~probe.skip_validation
    /\ is_website_url_valid(probe.url)
    /\ probe.out[1].value = Some(<<"e", ".", "c", "o">>)


---------------------------------------------------------------------------
(* C22 *)

\* The step just taken appended a result to the deque.
AppendStep == Len(appended') = Len(appended) + 1

\* The result carries the site.
Complete(result) == result.url # None /\ result.website_id # None

\* C22: a flush is atomic with respect to appends, whatever the interleaving
\* of Site Tasks, registrations and flushes.  A step that calls the sink
\* appends nothing; its batch is the first len(batch) results of the deque
\* as the step found it and what it leaves is the rest of that deque, so no
\* result came in between the first pop and the sink call; every result of
\* the batch carries url and website_id.  A step that appends calls no sink
\* and adds one complete result at the right end of the deque.
C22_FlushAtomic ==
    [][/\ SinkCalled =>
            LET batch == Last(sink_calls').monitoring_data
            IN  /\ ~AppendStep
                /\ appended' = appended
                /\ Len(batch) <= Len(monitoring_results)
                /\ batch = SubSeq(monitoring_results, 1, Len(batch))
                /\ monitoring_results'
                       = SubSeq(monitoring_results, Len(batch) + 1,
                                Len(monitoring_results))
                /\ \A k \in 1..Len(batch) : Complete(batch[k])
       /\ AppendStep =>
            /\ ~SinkCalled
            /\ sink_calls' = sink_calls
            /\ monitoring_results'
                   = Append(monitoring_results, Last(appended'))
            /\ Complete(Last(appended'))]_vars

\* A flush has just handed over the results of two sites, the second of
\* them registered while the engine ran, and a Site Task is waiting for its
\* probe.
C22_Witness ==
    /\ flush_log # None
    /\ sink_calls # <<>>
    /\ Len(Last(sink_calls).monitoring_data) = 2
    /\ Last(sink_calls).monitoring_data[1].website_id
           # Last(sink_calls).monitoring_data[2].website_id
    /\ Len(db) > Len(websites)
    /\ \E i \in 1..Len(tasks) : tasks[i].pc = "probing"


---------------------------------------------------------------------------
(* C23 *)

\* The batches of the sink calls so far, one after the other.
RECURSIVE Handed(_)
Handed(calls) ==
    IF calls = <<>> THEN <<>>
    ELSE Handed(SubSeq(calls, 1, Len(calls) - 1))
             \o Last(calls).monitoring_data

\* The results of the site id among seq, in the order of seq.
OfSite(seq, id) == SelectSeq(seq, LAMBDA r : r.website_id = Some(id))

IsPrefix(s, t) == Len(s) <= Len(t) /\ s = SubSeq(t, 1, Len(s))

\* C23: the Persister drains strictly first in, first out across cycles.
\* The batches handed to the sink by the flushes so far, put one after the
\* other in call order, are the first results appended to the deque, in
\* the order they were appended; so the results of each site reach the
\* sink in the order its probes ended.
C23_DrainsFifo ==
    /\ IsPrefix(Handed(sink_calls), appended)
    /\ \A n \in 1..Len(Sites) :
          IsPrefix(OfSite(Handed(sink_calls), n), OfSite(appended, n))

\* Two flushes have each handed over one result of the same site, a
\* timeout and an answer.
C23_Witness ==
    /\ Len(sink_calls) = 2
    /\ Len(sink_calls[1].monitoring_data) = 1
    /\ Len(sink_calls[2].monitoring_data) = 1
    /\ sink_calls[1].monitoring_data[1].website_id
           = sink_calls[2].monitoring_data[1].website_id
    /\ sink_calls[1].monitoring_data[1].http_status_code
           # sink_calls[2].monitoring_data[1].http_status_code
    /\ Handed(sink_calls) = appended


---------------------------------------------------------------------------
(* C24 *)

\* C24: the flush loop drains continuously and idles only on an empty deque.
\* A flush that leaves results in the deque is followed by the next flush
\* with no step of any coroutine and no second of time between them; the
\* loop goes to sleep only on finding the deque empty, for
\* RESULTS_WORKER_WAIT_TIME seconds; no flush is made during a sleep; and
\* when a sleep is over the loop looks at the deque again, flushing if it
\* holds a result and sleeping again if not.
C24_DrainsThenIdles ==
    [][/\ SinkCalled =>
            /\ mainpc = "running"
            /\ mainpc' = IF monitoring_results' # <<>>
                         THEN "running" ELSE "sleeping"
       /\ mainpc = "running" => SinkCalled /\ tasks' = tasks
       /\ (mainpc' = "sleeping" /\ mainpc # "sleeping") =>
            /\ monitoring_results' = <<>>
            /\ wait' = RESULTS_WORKER_WAIT_TIME
       /\ (mainpc = "sleeping" /\ wait > 0) =>
            /\ mainpc' = "sleeping"
            /\ wait' \in {wait, wait - 1}
       /\ (mainpc = "sleeping" /\ wait = 0 /\ <<mainpc, wait>>' # <<mainpc, wait>>) =>
            /\ monitoring_results' = monitoring_results
            /\ mainpc' = IF monitoring_results # <<>>
                         THEN "running" ELSE "sleeping"
            /\ wait' = RESULTS_WORKER_WAIT_TIME]_vars

\* A deque of 102 results has been drained by two flushes, the first of a
\* full batch; the first left the loop running, the second put it to sleep.
C24_Witness ==
    /\ Len(sink_calls) = 2
    /\ Len(sink_calls[1].monitoring_data) = RESULTS_BATCH_SAVE_SIZE
    /\ sink_calls[1].left = 2
    /\ Len(sink_calls[2].monitoring_data) = 2
    /\ monitoring_results = <<>>
    /\ mainpc = "sleeping"
    /\ wait = RESULTS_WORKER_WAIT_TIME


---------------------------------------------------------------------------
(* C25 *)

\* C25: under fair scheduling every result appended to the deque is in the
\* end popped and handed to the sink, also after sink calls that failed: the
\* k-th result appended is the k-th result handed over, the loop of
\* monitor_websites never ends, and after a failed sink call a deque that
\* holds a result is flushed again.
C25_EveryResultHanded ==
    /\ \A k \in 1..MaxAppends :
          (Len(appended) >= k) ~> (Len(Handed(sink_calls)) >= k)
    /\ [](mainpc \in {"init", "created", "sleeping", "running"})
    /\ \A n \in 1..MaxAppends :
          (/\ Len(sink_calls) = n
           /\ Last(sink_calls).raised
           /\ monitoring_results # <<>>)
              ~> (Len(sink_calls) > n)

\* The first sink call failed; the result appended after it has been handed
\* over by a second call.
C25_Witness ==
    /\ Len(sink_calls) = 2
    /\ sink_calls[1].raised
    /\ sink_calls[1].monitoring_data # <<>>
    /\ sink_calls[2].monitoring_data # <<>>
    /\ sink_calls[2].n_appended > sink_calls[1].n_appended
    /\ Handed(sink_calls) = appended


---------------------------------------------------------------------------
(* C26 *)

\* How many of the sink calls so far were handed the k-th appended result,
\* the batches being laid end to end along the append history.
TimesHanded(k) ==
    Cardinality({c \in 1..Len(sink_calls) :
        LET before == Len(Handed(SubSeq(sink_calls, 1, c - 1)))
            batch == sink_calls[c].monitoring_data
        IN  /\ k > before
            /\ k <= before + Len(batch)
            /\ batch[k - before] = appended[k]})

\* C26: hand-off at most once, and conservation.  The results appended so
\* far are those handed to the sink followed by those still in the deque,
\* result for result: none is lost before it is popped, none is in a batch
\* and in the deque, none is in two batches, also after a sink call that
\* raised and after a flush that left results behind.
C26_HandedOnceOrBuffered ==
    /\ appended = Handed(sink_calls) \o monitoring_results
    /\ \A k \in 1..Len(appended) :
          TimesHanded(k) = IF k <= Len(appended) - Len(monitoring_results)
                           THEN 1 ELSE 0

\* The sink has raised on a full batch of a deque of 102 results: the batch
\* is gone from the deque, the two results behind it are still there.
C26_Witness ==
    /\ Len(sink_calls) = 1
    /\ sink_calls[1].raised
    /\ Len(sink_calls[1].monitoring_data) = RESULTS_BATCH_SAVE_SIZE
    /\ Len(monitoring_results) = 2
    /\ Len(appended) = RESULTS_BATCH_SAVE_SIZE + 2
    /\ mainpc = "running"


---------------------------------------------------------------------------
(* C27 *)

\* C27: monitor_websites never starts a flush on an empty deque.  From its
\* finding the deque non-empty to the flush no other step is taken, so the
\* deque it flushes holds a result and every batch it hands to the sink
\* has at least one.  A direct call of save_website_monitoring_results on
\* an empty deque, by contrast, can always be made, returns, hands the
\* sink an empty batch and leaves the deque empty.
C27_LoopFlushesNonEmpty ==
    /\ [](mainpc = "running" => monitoring_results # <<>>)
    /\ []((mainpc = "init" /\ sink_calls = <<>>) => ENABLED DirectFlush)
    /\ [][/\ mainpc = "running" =>
               /\ SinkCalled
               /\ Last(sink_calls').monitoring_data # <<>>
               /\ Last(sink_calls').monitoring_data[1]
                      = monitoring_results[1]
          /\ (SinkCalled /\ mainpc # "running") =>
               /\ mainpc = "init"
               /\ monitoring_results = <<>>
               /\ Last(sink_calls').monitoring_data = <<>>
               /\ monitoring_results' = <<>>
               /\ mainpc' = mainpc]_vars

\* After a direct call on the empty deque, which handed the sink an empty
\* batch, the loop of monitor_websites has flushed a deque of two results.
C27_Witness ==
    /\ Len(sink_calls) = 2
    /\ sink_calls[1].monitoring_data = <<>>
    /\ Len(sink_calls[2].monitoring_data) = 2
    /\ flush_log # None
    /\ mainpc = "sleeping"
    /\ monitoring_results = <<>>


---------------------------------------------------------------------------
(* C28 *)

\* The sites of the tasks launched so far, in launch order.
Launched(ts) == [k \in 1..Len(ts) |-> ts[k].website_data]

\* C28: at most one Site Task is ever launched per site id in one run of
\* the process.  No two tasks launched so far have the same site id.  Tasks
\* are launched by two steps only: the first run of monitor_websites, one
\* task per row read at startup, and a create_website_info request answered
\* 201, one task for a url that was not stored and an id that no task has.
\* A create_website_info request for a stored url, such as the second of two
\* requests for the same url, launches none, and neither does any other
\* step.
C28_OneLaunchPerSite ==
    /\ [](\A i, j \in 1..Len(tasks) :
             tasks[i].website_data.id = tasks[j].website_data.id => i = j)
    /\ [][/\ Launched(tasks') # Launched(tasks) =>
               \/ /\ mainpc = "created"
                  /\ tasks = <<>>
                  /\ Launched(tasks') = websites
                  /\ websites = db
               \/ /\ Served("create_website_info")
                  /\ response'[1].status = 201
                  /\ get_website_data(db, Some(response'[1].url)) = <<>>
                  /\ Len(tasks') = Len(tasks) + 1
                  /\ SubSeq(Launched(tasks'), 1, Len(tasks)) = Launched(tasks)
                  /\ Last(tasks').website_data.url = response'[1].url
                  /\ \A i \in 1..Len(tasks) :
                        tasks[i].website_data.id
                            # Last(tasks').website_data.id
          /\ ServedStored("create_website_info") =>
               /\ tasks' = tasks
               /\ response'[1].status # 201
          /\ Served("update_website_info") => tasks' = tasks]_vars

\* The second site was registered while the engine ran and has its task; a
\* second request to register it has just been turned down.
C28_Witness ==
    /\ response # None
    /\ response[1].handler = "create_website_info"
    /\ response[1].url = Sites[2].url
    /\ response[1].status = 400
    /\ Len(tasks) = 2
    /\ tasks[2].website_data.url = Sites[2].url
    /\ Cardinality({k \in 1..Len(db) : db[k].url = Sites[2].url}) = 1

===========================================================================
